---- MODULE Spec2Model ----
(***************************************************************************)
(* Trainer of src/train.py: construction (with optional checkpoint         *)
(* restore), the epoch loop of train() with its validation pass valid()    *)
(* and the validation-driven checkpoint write.                             *)
(*                                                                         *)
(* Floats are modelled as integers 0..: a finite loss is a natural number, *)
(* +infinity is Inf (above every finite value the model can produce) and   *)
(* not-a-number is NaN; comparisons and arithmetic follow IEEE 754 for     *)
(* them.  Model parameters and optimizer state are abstracted to integers: *)
(* an optimizer step moves the parameters by StepSize and advances the     *)
(* optimizer's step count by one.                                          *)
(***************************************************************************)
EXTENDS Integers, Sequences, FiniteSets, TLC

\* ---------------------------------------------------------------- bounds
MaxRuns == 2            \* Trainer constructions (processes) in one behaviour
MaxEpochs == 2          \* largest config.epochs
NumTrainBatches == 1    \* len(dataloaders['train'])
NumValidBatches == 2    \* len(dataloaders['valid'])
BatchSize == 2          \* x.size(0)
MaxLoss == 1            \* the nonzero finite loss.item() of a batch
MaxNoise == 1           \* magnitude of the sampled noise values
StepSize == 2           \* parameter change of one optimizer step

\* ---------------------------------------------------------------- floats
NaN == -1
MaxFinite == MaxLoss * BatchSize * (NumTrainBatches + NumValidBatches)
Inf == MaxFinite + 1

Finite == 0..MaxFinite
TrainLossVals == {0, MaxLoss}          \* loss.item() of a training batch
LossVals == {0, MaxLoss, Inf, NaN}     \* loss.item() of a validation batch

\* a > b on floats: false as soon as one side is NaN
Gt(a, b) == a # NaN /\ b # NaN /\ a > b
\* a < b on floats
Lt(a, b) == Gt(b, a)
\* a + b on floats
Add(a, b) == IF a = NaN \/ b = NaN THEN NaN
             ELSE IF a = Inf \/ b = Inf THEN Inf
             ELSE a + b
\* a * n on floats, n a positive integer
Mul(a, n) == IF a = NaN THEN NaN ELSE IF a = Inf THEN Inf ELSE a * n
\* a / n on floats, n a positive integer (finite quotients are rounded down
\* to the model's precision)
Div(a, n) == IF a = NaN THEN NaN ELSE IF a = Inf THEN Inf ELSE a \div n

\* ------------------------------------------------------ program constants
NoFile == [exists |-> FALSE]
InitParams == 0         \* freshly constructed model (torch.manual_seed(999))
InitOpt == 0            \* freshly constructed Adam state
Modes == {"train", "test"}
MaxPixel == 1           \* transforms.ToTensor() scales a pixel into [0, 1]
Pixels == 0..MaxPixel
Noises == {0 - MaxNoise, MaxNoise}   \* samples of torch.randn*std + mean
ValidSize == NumValidBatches * BatchSize   \* len(dataloaders['valid'].dataset)

VARIABLES
  file,            \* the checkpoint file at model_path: NoFile or a record
  runs,            \* number of Trainer constructions so far
  pc,              \* position of the program
  err,             \* exception raised by the last construction
  mode, continuous, denoising, epochs, offset,   \* Trainer fields
  params,          \* self.model parameters
  opt,             \* self.optimizer state
  training,        \* self.model.training (train()/eval() flag)
  epoch, best_val_loss, best_val_epoch,          \* locals of train()
  train_losses, valid_losses, total_loss, i, valid_loss,
  v_total_loss, v_i,                             \* locals of valid()
  x, noise, fed, target,  \* last batch: clean input, noise, tensor passed to
                          \* the model, tensor the loss is computed against
  measured,        \* <<params, opt>> seen by the forward passes of the
                   \* current validation pass
  persisted,       \* losses written by save_model in the current train()
  file_before      \* whether the file existed when train() was entered

vars == <<file, runs, pc, err, mode, continuous, denoising, epochs, offset,
          params, opt, training, epoch, best_val_loss, best_val_epoch,
          train_losses, valid_losses, total_loss, i, valid_loss,
          v_total_loss, v_i, x, noise, fed, target, measured, persisted,
          file_before>>

trainerVars == <<mode, continuous, denoising, epochs, offset>>
localVars == <<epoch, best_val_loss, best_val_epoch, train_losses,
               valid_losses, total_loss, i, valid_loss, v_total_loss, v_i>>
batchVars == <<x, noise, fed, target>>

\* ------------------------------------------------------------ check point
\* func.save_model(path, epoch, loss, model_state, optimizer_state): one
\* record with the four fields, under the keys __init__ reads back
save_model(e, l, m, o) ==
  [exists |-> TRUE, epoch |-> e, loss |-> l, model_state |-> m,
   optimmizer_state |-> o]

\* ------------------------------------------------------------ construction
\* variant: torch.load outside the `if self.continuous` test
NeedsCheckpointAlways(m, c) == m \in Modes
\* does __init__ call torch.load(self.model_path)?
NeedsCheckpoint(m, c) == (m = "train" /\ c) \/ m = "test"

\* variant: test mode restores the optimizer state too
RestoreOptimizerInTest(m, c, ck) ==
  IF m = "train" /\ ~c
    THEN [params |-> InitParams, opt |-> InitOpt, offset |-> 0]
  ELSE [params |-> ck.model_state, opt |-> ck.optimmizer_state,
        offset |-> IF m = "train" THEN ck.epoch ELSE 0]
\* model parameters, optimizer state and offset after __init__
Restore(m, c, ck) ==
  IF m = "train" /\ c
    THEN [params |-> ck.model_state, opt |-> ck.optimmizer_state,
          offset |-> ck.epoch]
  ELSE IF m = "test"
    THEN [params |-> ck.model_state, opt |-> InitOpt, offset |-> 0]
  ELSE [params |-> InitParams, opt |-> InitOpt, offset |-> 0]

Init ==
  /\ file = NoFile
  /\ runs = 0
  /\ pc = "none"
  /\ err = "none"
  /\ mode = "train" /\ continuous = FALSE /\ offset = 0
  /\ denoising \in BOOLEAN          \* config.denoising
  /\ epochs \in 0..MaxEpochs        \* config.epochs
  /\ params = InitParams /\ opt = InitOpt /\ training = TRUE
  /\ epoch = 0 /\ best_val_loss = Inf /\ best_val_epoch = 0
  /\ train_losses = <<>> /\ valid_losses = <<>>
  /\ total_loss = 0 /\ i = 0 /\ valid_loss = 0
  /\ v_total_loss = 0 /\ v_i = 0
  /\ x = 0 /\ noise = 0 /\ fed = 0 /\ target = 0
  /\ measured = {}
  /\ persisted = <<>>
  /\ file_before = FALSE

\* a new process: no call of train() has locals yet
FreshLocals ==
  /\ epoch' = 0 /\ best_val_loss' = Inf /\ best_val_epoch' = 0
  /\ train_losses' = <<>> /\ valid_losses' = <<>>
  /\ total_loss' = 0 /\ i' = 0 /\ valid_loss' = 0
  /\ v_total_loss' = 0 /\ v_i' = 0
  /\ x' = 0 /\ noise' = 0 /\ fed' = 0 /\ target' = 0
  /\ measured' = {} /\ persisted' = <<>> /\ file_before' = FALSE

\* Trainer.__init__(config, device, mode, continuous)
Construct(m, c) ==
  /\ pc \in {"none", "idle", "failed", "returned"}
  /\ runs < MaxRuns
  /\ runs' = runs + 1
  /\ mode' = m /\ continuous' = c
  /\ UNCHANGED <<epochs, denoising>>
  /\ training' = TRUE
  /\ FreshLocals
  /\ UNCHANGED file
  /\ IF NeedsCheckpoint(m, c) /\ file = NoFile
       THEN /\ err' = "FileNotFoundError"
            /\ pc' = "failed"
            /\ params' = InitParams /\ opt' = InitOpt /\ offset' = 0
       ELSE /\ err' = "none"
            /\ pc' = "idle"
            /\ params' = Restore(m, c, file).params
            /\ opt' = Restore(m, c, file).opt
            /\ offset' = Restore(m, c, file).offset

\* ------------------------------------------------------------------ train
\* best_val_loss = float('inf')
InitBest == Inf

\* train(), up to the loop; called on a Trainer built with mode 'train' (a
\* test-mode Trainer has no dataloaders['train'])
TrainBegin ==
  /\ pc = "idle" /\ mode = "train"
  /\ best_val_loss' = InitBest
  /\ best_val_epoch' = IF continuous THEN offset ELSE 0
  /\ train_losses' = <<>> /\ valid_losses' = <<>>
  /\ epoch' = offset
  /\ persisted' = <<>>
  /\ file_before' = file.exists
  /\ pc' = "loop"
  /\ UNCHANGED <<file, runs, err, trainerVars, params, opt, training,
                 total_loss, i, valid_loss, v_total_loss, v_i, batchVars,
                 measured>>

\* for epoch in range(offset, offset + epochs): model.train(); total_loss = 0
EpochBegin ==
  /\ pc = "loop" /\ epoch < offset + epochs
  /\ training' = TRUE
  /\ total_loss' = 0
  /\ i' = 0
  /\ pc' = "train_batch"
  /\ UNCHANGED <<file, runs, err, trainerVars, params, opt, epoch,
                 best_val_loss, best_val_epoch, train_losses, valid_losses,
                 valid_loss, v_total_loss, v_i, batchVars, measured,
                 persisted, file_before>>

\* the tensor passed to self.model
ModelInput(dn, cx, nz) == IF dn THEN cx + nz ELSE cx
\* variant: the loss against the tensor the model was given
LossTargetNoisy(dn, cx, nz) == ModelInput(dn, cx, nz)
\* the second argument of self.criterion
LossTarget(dn, cx, nz) == cx

\* loss.backward(); self.optimizer.step()
OptimizerStep(p, o) == <<p + StepSize, o + 1>>

\* one batch of the training loop
TrainBatch(cx, nz, l) ==
  /\ pc = "train_batch" /\ i < NumTrainBatches
  /\ training
  /\ x' = cx
  /\ noise' = IF denoising THEN nz ELSE noise
  /\ fed' = ModelInput(denoising, cx, nz)
  /\ target' = LossTarget(denoising, cx, nz)
  /\ params' = OptimizerStep(params, opt)[1]
  /\ opt' = OptimizerStep(params, opt)[2]
  /\ total_loss' = Add(total_loss, Mul(l, BatchSize))
  /\ i' = i + 1
  /\ UNCHANGED <<file, runs, pc, err, trainerVars, training, epoch,
                 best_val_loss, best_val_epoch, train_losses, valid_losses,
                 valid_loss, v_total_loss, v_i, measured, persisted,
                 file_before>>

\* valid(epoch), up to the loop: model.eval(); total_loss = 0
ValidBegin ==
  /\ pc = "train_batch" /\ i = NumTrainBatches
  /\ training' = FALSE
  /\ v_total_loss' = 0
  /\ v_i' = 0
  /\ measured' = {}
  /\ pc' = "valid_batch"
  /\ UNCHANGED <<file, runs, err, trainerVars, params, opt, epoch,
                 best_val_loss, best_val_epoch, train_losses, valid_losses,
                 total_loss, i, valid_loss, batchVars, persisted,
                 file_before>>

\* the clean input of the k-th validation batch: the validation loader is
\* not shuffled, so every pass sees the same batches in the same order
ValidData(k) == k % (MaxPixel + 1)

\* variant: a validation batch that also takes an optimizer step
ValidBatchStepping(nz, l) ==
  /\ pc = "valid_batch" /\ v_i < NumValidBatches
  /\ x' = ValidData(v_i)
  /\ noise' = IF denoising THEN nz ELSE noise
  /\ fed' = ModelInput(denoising, ValidData(v_i), nz)
  /\ target' = LossTarget(denoising, ValidData(v_i), nz)
  /\ measured' = measured \cup {<<params, opt>>}
  /\ params' = OptimizerStep(params, opt)[1]
  /\ opt' = OptimizerStep(params, opt)[2]
  /\ v_total_loss' = Add(v_total_loss, Mul(l, BatchSize))
  /\ v_i' = v_i + 1
  /\ UNCHANGED <<file, runs, pc, err, trainerVars, training,
                 epoch, best_val_loss, best_val_epoch, train_losses,
                 valid_losses, total_loss, i, valid_loss, persisted,
                 file_before>>

\* one batch of the validation loop
ValidBatch(nz, l) ==
  /\ pc = "valid_batch" /\ v_i < NumValidBatches
  /\ x' = ValidData(v_i)
  /\ noise' = IF denoising THEN nz ELSE noise
  /\ fed' = ModelInput(denoising, ValidData(v_i), nz)
  /\ target' = LossTarget(denoising, ValidData(v_i), nz)
  /\ measured' = measured \cup {<<params, opt>>}
  /\ v_total_loss' = Add(v_total_loss, Mul(l, BatchSize))
  /\ v_i' = v_i + 1
  /\ UNCHANGED <<file, runs, pc, err, trainerVars, params, opt, training,
                 epoch, best_val_loss, best_val_epoch, train_losses,
                 valid_losses, total_loss, i, valid_loss, persisted,
                 file_before>>

\* valid() returns; valid_loss = self.valid(epoch)
ValidReturn ==
  /\ pc = "valid_batch" /\ v_i = NumValidBatches
  /\ valid_loss' = Div(v_total_loss, ValidSize)
  /\ x' = 0 /\ noise' = 0 /\ fed' = 0 /\ target' = 0  \* locals of valid() die
  /\ pc' = "decide"
  /\ UNCHANGED <<file, runs, err, trainerVars, params, opt, training, epoch,
                 best_val_loss, best_val_epoch, train_losses, valid_losses,
                 total_loss, i, v_total_loss, v_i, measured,
                 persisted, file_before>>

\* variant: best_val_loss >= valid_loss
ImprovedOrEqual(best, v) == ~Lt(best, v) /\ best # NaN /\ v # NaN
\* if best_val_loss > valid_loss
Improved(best, v) == Gt(best, v)

\* variant: the best loss is not updated
NewBestStale(best, v) == best
\* best_val_loss = valid_loss
NewBest(best, v) == v

\* variant: best_val_epoch = epoch
SavedEpochZeroBased(e) == e
\* best_val_epoch = epoch+1
SavedEpoch(e) == e + 1

\* variant: insert(0, ...)
RecordLossInFront(seq, l) == <<l>> \o seq
\* train_losses.append / valid_losses.append
RecordLoss(seq, l) == Append(seq, l)

\* variant: the state of a fresh optimizer is saved
StateToSaveFresh == <<params, InitOpt>>
\* self.model.state_dict(), self.optimizer.state_dict() handed to save_model
StateToSave == <<params, opt>>

\* rest of the loop body: record the losses, save on improvement
EpochEnd ==
  /\ pc = "decide"
  /\ train_losses' = RecordLoss(train_losses, total_loss)
  /\ valid_losses' = RecordLoss(valid_losses, valid_loss)
  /\ IF Improved(best_val_loss, valid_loss)
       THEN /\ best_val_epoch' = SavedEpoch(epoch)
            /\ best_val_loss' = NewBest(best_val_loss, valid_loss)
            /\ file' = save_model(SavedEpoch(epoch), valid_loss,
                                  StateToSave[1], StateToSave[2])
            /\ persisted' = Append(persisted, valid_loss)
       ELSE UNCHANGED <<best_val_epoch, best_val_loss, file, persisted>>
  /\ epoch' = epoch + 1
  /\ pc' = "loop"
  /\ UNCHANGED <<runs, err, trainerVars, params, opt, training, total_loss, i,
                 valid_loss, v_total_loss, v_i, batchVars, measured,
                 file_before>>

\* the loop is exhausted: train() returns the two lists
TrainReturn ==
  /\ pc = "loop" /\ epoch = offset + epochs
  /\ pc' = "returned"
  /\ UNCHANGED <<file, runs, err, trainerVars, params, opt, training,
                 localVars, batchVars, measured, persisted, file_before>>

Next ==
  \/ \E m \in Modes, c \in BOOLEAN : Construct(m, c)
  \/ TrainBegin
  \/ EpochBegin
  \/ \E cx \in Pixels, nz \in Noises, l \in TrainLossVals :
       TrainBatch(cx, nz, l)
  \/ ValidBegin
  \/ \E nz \in Noises, l \in LossVals : ValidBatch(nz, l)
  \/ ValidReturn
  \/ EpochEnd
  \/ TrainReturn

Spec == Init /\ [][Next]_vars

\* ------------------------------------------------------------------ claims
InCall == pc \in {"loop", "train_batch", "valid_batch", "decide"}
\* this step called save_model
Written == Len(persisted') = Len(persisted) + 1
StrictlyDecreasing(seq) ==
  \A k \in 1..(Len(seq) - 1) : Gt(seq[k], seq[k + 1])

\* C1 as stated: a checkpoint is written at the end of an epoch iff the
\* epoch's validation loss is strictly less than every validation loss
\* recorded earlier in the same train() call.
C1_Original ==
  [][pc = "decide" =>
       (Written <=>
          \A k \in 1..Len(valid_losses) : Lt(valid_loss, valid_losses[k]))]_vars

\* C1 amended: a checkpoint is written at the end of an epoch iff the
\* epoch's validation loss is a number (not NaN) strictly below +infinity
\* and strictly below every non-NaN validation loss recorded earlier in the
\* same call (an equal loss does not trigger a write); the loss handed to
\* the write is that loss, and the losses persisted in one call are
\* strictly decreasing.
C1_CheckpointIffStrictImprovement ==
  /\ [][pc = "decide" =>
          /\ Written <=>
               /\ valid_loss # NaN
               /\ valid_loss < Inf
               /\ \A k \in 1..Len(valid_losses) :
                    valid_losses[k] # NaN => valid_loss < valid_losses[k]
          /\ Written => file'.exists
                        /\ persisted' = Append(persisted, valid_loss)
          /\ ~Written => file' = file /\ persisted' = persisted]_vars
  /\ [][Written => pc = "decide"]_vars
  /\ [](StrictlyDecreasing(persisted))

\* an epoch whose loss equals the best loss of the call wrote nothing
C1_Witness ==
  /\ pc = "loop" /\ Len(valid_losses) = 2
  /\ valid_losses[1] = valid_losses[2] /\ valid_losses[1] \in Finite
  /\ persisted = <<valid_losses[1]>>

\* C2 as stated: a resumed train() (mode train, continuous) starts from the
\* restored checkpoint's loss as its best, so the file is never replaced by
\* a worse result: no write of a resumed call stores a loss greater than
\* the loss the file held.
C2_ResumeNeverOverwritesWithWorse ==
  [][mode = "train" /\ continuous /\ Written =>
       ~Gt(file'.loss, file.loss)]_vars

\* C3: a resumed Trainer takes its offset from the checkpoint's epoch (0
\* without resume); train() visits the indices offset, offset+1, ...,
\* offset+epochs-1 in increasing order, and every checkpoint written stores
\* epoch = index + 1, a value in offset+1..offset+epochs.
C3_ResumeEpochRange ==
  /\ [](pc = "idle" =>
          offset = IF mode = "train" /\ continuous THEN file.epoch ELSE 0)
  /\ [](InCall =>
          /\ epoch = offset + Len(valid_losses)
          /\ epoch <= offset + epochs
          /\ (pc # "loop" => epoch < offset + epochs))
  /\ [](pc = "returned" =>
          epoch = offset + epochs /\ Len(valid_losses) = epochs)
  /\ [][pc = "idle" /\ pc' = "loop" => epoch' = offset]_vars
  /\ [][InCall /\ epoch' # epoch => pc = "decide" /\ epoch' = epoch + 1]_vars
  /\ [][InCall /\ offset' # offset => FALSE]_vars
  /\ [][Written =>
          /\ file'.epoch = epoch + 1
          /\ file'.epoch \in (offset + 1)..(offset + epochs)]_vars

\* a resumed call that ran two epochs and saved in the last one
C3_Witness ==
  /\ pc = "returned" /\ continuous /\ offset >= 1 /\ epochs = 2
  /\ file.epoch = offset + 2

IsNumber(v) == v # NaN /\ v # Inf
\* positions of the least value among the numbers of seq
LeastAt(seq) ==
  {k \in 1..Len(seq) :
     /\ IsNumber(seq[k])
     /\ \A j \in 1..Len(seq) : IsNumber(seq[j]) => seq[k] <= seq[j]}
FirstOf(S) == CHOOSE k \in S : \A j \in S : k <= j
FreshCallReturned ==
  pc = "returned" /\ ~continuous /\ epochs >= 1 /\ ~file_before

\* C4 as stated: after a non-resumed train() with epochs >= 1 started
\* without a checkpoint file, the file exists and stores (k, v), v the
\* minimum of the validation losses and k the 1-based index of the first
\* epoch attaining it, for every sequence of validation losses.
C4_Original ==
  FreshCallReturned =>
    /\ file.exists
    /\ \A j \in 1..Len(valid_losses) : ~Gt(file.loss, valid_losses[j])
                                       /\ valid_losses[j] # NaN
    /\ file.epoch \in 1..Len(valid_losses)
    /\ valid_losses[file.epoch] = file.loss
    /\ \A j \in 1..(file.epoch - 1) : valid_losses[j] # file.loss

\* C4 amended: the same, provided at least one validation loss is a number
\* (neither NaN nor +infinity): then the file exists and stores (k, v), v
\* the minimum of the losses that are numbers and k the 1-based index of
\* the first epoch attaining v; when no loss is a number, no file is
\* written.
C4_FileHoldsFirstMinimum ==
  FreshCallReturned =>
    /\ Len(valid_losses) = epochs
    /\ IF LeastAt(valid_losses) = {}
         THEN ~file.exists
         ELSE /\ file.exists
              /\ file.epoch = FirstOf(LeastAt(valid_losses))
              /\ file.loss = valid_losses[file.epoch]

\* first epoch NaN, second epoch a number: the file stores epoch 2
C4_Witness ==
  /\ FreshCallReturned /\ epochs = 2
  /\ valid_losses[1] = NaN /\ IsNumber(valid_losses[2])
  /\ file.exists /\ file.epoch = 2

\* C5: for every batch of train() and valid(), the tensor passed to the
\* model is clean input + noise when denoising and the clean input
\* otherwise, and the loss is computed against the clean input.
C5_DenoisingInputAndTarget ==
  /\ target = x
  /\ fed = IF denoising THEN x + noise ELSE x

\* a denoised validation batch
C5_Witness ==
  pc = "valid_batch" /\ v_i = NumValidBatches /\ denoising /\ fed # x

\* C6: a validation pass changes neither the model parameters nor the
\* optimizer state; within train() they change only by the one optimizer
\* step of a training batch.
C6_ValidLeavesParameters ==
  /\ [][(pc \in {"valid_batch", "decide"}) =>
          params' = params /\ opt' = opt]_vars
  /\ [][InCall /\ (params' # params \/ opt' # opt) =>
          /\ pc = "train_batch" /\ i' = i + 1
          /\ <<params', opt'>> = OptimizerStep(params, opt)]_vars

\* a complete validation pass of a trained, denoising model
C6_Witness ==
  /\ pc = "decide" /\ denoising /\ v_i = NumValidBatches
  /\ measured = {<<params, opt>>} /\ opt > InitOpt

\* C7: after construction, test mode has the checkpoint's model parameters
\* and a fresh optimizer; resumed training has the checkpoint's model
\* parameters and optimizer state; plain training has a fresh model, a
\* fresh optimizer and offset 0.
C7_RestoreScope ==
  pc = "idle" =>
    /\ mode = "test" =>
         params = file.model_state /\ opt = InitOpt /\ offset = 0
    /\ mode = "train" /\ continuous =>
         params = file.model_state /\ opt = file.optimmizer_state
    /\ mode = "train" /\ ~continuous =>
         params = InitParams /\ opt = InitOpt /\ offset = 0

\* a test-mode Trainer over a checkpoint saved after training
C7_Witness ==
  /\ pc = "idle" /\ mode = "test"
  /\ file.exists /\ file.optimmizer_state # InitOpt
  /\ params = file.model_state /\ params # InitParams /\ opt = InitOpt

\* C8: construction fails with FileNotFoundError exactly when the file is
\* absent and (mode train and continuous, or mode test); it never creates
\* or changes the file.
C8_ConstructionFailure ==
  [][runs' # runs =>
       /\ file' = file
       /\ pc' \in {"failed", "idle"}
       /\ (pc' = "failed") <=>
            /\ ~file.exists
            /\ (mode' = "train" /\ continuous') \/ mode' = "test"
       /\ (pc' = "failed") <=> (err' = "FileNotFoundError")]_vars

\* a resume attempted after a run that saved nothing
C8_Witness ==
  pc = "failed" /\ mode = "train" /\ continuous /\ runs = 2 /\ ~file.exists

\* the steps of one train() call
TrainStep ==
  \/ EpochBegin
  \/ \E cx \in Pixels, nz \in Noises, l \in TrainLossVals :
       TrainBatch(cx, nz, l)
  \/ ValidBegin
  \/ \E nz \in Noises, l \in LossVals : ValidBatch(nz, l)
  \/ ValidReturn
  \/ EpochEnd
  \/ TrainReturn
\* steps of one iteration of the epoch loop: its head, every train batch,
\* the entry of valid(), every validation batch, its return, the loop's tail
StepsPerEpoch == NumTrainBatches + NumValidBatches + 4
\* steps the current iteration has taken
StepsTaken ==
  CASE pc = "train_batch" -> 1 + i
    [] pc = "valid_batch" -> 2 + NumTrainBatches + v_i
    [] pc = "decide" -> 3 + NumTrainBatches + NumValidBatches
    [] OTHER -> 0
\* steps train() has left when it runs exactly offset+epochs-epoch more
\* iterations and then returns
StepsLeft ==
  IF pc = "returned" THEN 0
  ELSE 1 + (offset + epochs - epoch) * StepsPerEpoch - StepsTaken

C10_SavedStateIsMeasuredState ==
  /\ [](pc = "train_batch" /\ i < NumTrainBatches => training)
  /\ [](pc = "valid_batch" => ~training /\ i = NumTrainBatches)
  /\ [](pc = "decide" =>
          ~training /\ i = NumTrainBatches /\ v_i = NumValidBatches
          /\ measured = {<<params, opt>>})
  /\ [][Written =>
          /\ pc = "decide"
          /\ file'.loss = valid_loss
          /\ measured = {<<file'.model_state, file'.optimmizer_state>>}]_vars

\* a checkpoint written by the second epoch of a resumed call
C10_Witness ==
  /\ pc = "loop" /\ continuous /\ Len(persisted) = 2
  /\ file.model_state = params /\ file.optimmizer_state = opt
  /\ file.loss = valid_loss

====
